---------------------------- MODULE Spec2Model ----------------------------
(***************************************************************************)
(* A model of the EPUB structure checkers detect_no_toc.py and             *)
(* check_copyright_toc.py: the href resolver (urllib.parse.unquote and     *)
(* pathlib.PurePosixPath as the code uses them), the structural            *)
(* classifier, the copyright locator and the two batch drivers.            *)
(*                                                                         *)
(* Text is modelled by TLA+ strings, read character by character with      *)
(* Len, SubSeq and \o.                                                     *)
(***************************************************************************)
EXTENDS Integers, Sequences, FiniteSets, TLC

\* Python's None where the value would be a string, and where it would be
\* an index into a list (the lists here are indexed from 1).
None == "None"
NoIndex == 0

(***************************************************************************)
(* Strings.                                                                *)
(***************************************************************************)

\* s[i] of Python, 1-based.
Char(s, i) == SubSeq(s, i, i)

\* The first position of the one-character string c in s, 0 when absent.
RECURSIVE IndexFrom(_, _, _)
IndexFrom(c, s, i) ==
    IF i > Len(s) THEN 0
    ELSE IF Char(s, i) = c THEN i
    ELSE IndexFrom(c, s, i + 1)

IndexOf(c, s) == IndexFrom(c, s, 1)

\* Python's `needle in hay` for strings.
Contains(hay, needle) ==
    \E i \in 1..(Len(hay) - Len(needle) + 1) :
        SubSeq(hay, i, i + Len(needle) - 1) = needle

\* Python's str.endswith.
EndsWith(s, suffix) ==
    /\ Len(suffix) <= Len(s)
    /\ SubSeq(s, Len(s) - Len(suffix) + 1, Len(s)) = suffix

\* Python's s.split('/'): the pieces between slashes, empty pieces kept.
RECURSIVE SplitFrom(_, _, _)
SplitFrom(s, i, cur) ==
    IF i > Len(s) THEN <<cur>>
    ELSE IF Char(s, i) = "/" THEN <<cur>> \o SplitFrom(s, i + 1, "")
    ELSE SplitFrom(s, i + 1, cur \o Char(s, i))

SplitSlash(s) == SplitFrom(s, 1, "")

\* Python's '/'.join(parts).
RECURSIVE JoinSlash(_)
JoinSlash(parts) ==
    IF Len(parts) = 0 THEN ""
    ELSE IF Len(parts) = 1 THEN parts[1]
    ELSE parts[1] \o "/" \o JoinSlash(Tail(parts))

UpperChars == "ABCDEFGHIJKLMNOPQRSTUVWXYZ"
LowerChars == "abcdefghijklmnopqrstuvwxyz"

\* The lower-case letter of each upper-case letter.
LowerOf ==
    [c \in {Char(UpperChars, k) : k \in 1..Len(UpperChars)} |->
        Char(LowerChars, IndexOf(c, UpperChars))]

LowerChar(c) == IF c \in DOMAIN LowerOf THEN LowerOf[c] ELSE c

\* Python's str.lower over ASCII.
RECURSIVE LowerFrom(_, _)
LowerFrom(s, i) ==
    IF i > Len(s) THEN ""
    ELSE LowerChar(Char(s, i)) \o LowerFrom(s, i + 1)

Lower(s) == LowerFrom(s, 1)

\* Python's str.strip over the blank.
RECURSIVE LStrip(_)
LStrip(s) ==
    IF Len(s) > 0 /\ Char(s, 1) = " " THEN LStrip(SubSeq(s, 2, Len(s))) ELSE s

RECURSIVE RStrip(_)
RStrip(s) ==
    IF Len(s) > 0 /\ Char(s, Len(s)) = " "
    THEN RStrip(SubSeq(s, 1, Len(s) - 1)) ELSE s

Strip(s) == RStrip(LStrip(s))

(***************************************************************************)
(* urllib.parse.unquote: every %XX with two hex digits becomes the         *)
(* character of that code; any other % stays.                              *)
(***************************************************************************)

HexUpper == "0123456789ABCDEF"
HexLower == "0123456789abcdef"

IsHex(c) == IndexOf(c, HexUpper) > 0 \/ IndexOf(c, HexLower) > 0

HexVal(c) ==
    IF IndexOf(c, HexUpper) > 0 THEN IndexOf(c, HexUpper) - 1
    ELSE IndexOf(c, HexLower) - 1

\* The printable ASCII characters of codes 32..95 and of codes 97..126.
PrintableLow ==
    " !\"#$%&'()*+,-./0123456789:;<=>?@ABCDEFGHIJKLMNOPQRSTUVWXYZ[\\]^_"

PrintableHigh == "abcdefghijklmnopqrstuvwxyz{|}~"

\* chr(code). The model's hrefs escape the characters above only; any other
\* code stands for a character that is no path character.
Chr(code) ==
    IF code >= 32 /\ code <= 95 THEN Char(PrintableLow, code - 31)
    ELSE IF code >= 97 /\ code <= 126 THEN Char(PrintableHigh, code - 96)
    ELSE "\t"

RECURSIVE UnquoteFrom(_, _)
UnquoteFrom(s, i) ==
    IF i > Len(s) THEN ""
    ELSE IF /\ Char(s, i) = "%"
            /\ i + 2 <= Len(s)
            /\ IsHex(Char(s, i + 1))
            /\ IsHex(Char(s, i + 2))
    THEN Chr(16 * HexVal(Char(s, i + 1)) + HexVal(Char(s, i + 2)))
             \o UnquoteFrom(s, i + 3)
    ELSE Char(s, i) \o UnquoteFrom(s, i + 1)

unquote(s) == UnquoteFrom(s, 1)

(***************************************************************************)
(* pathlib.PurePosixPath: a root ("", "/" or "//") and the segments that   *)
(* are neither empty nor ".".                                              *)
(***************************************************************************)

\* The number of leading slashes of s.
RECURSIVE LeadingSlashes(_, _)
LeadingSlashes(s, i) ==
    IF i <= Len(s) /\ Char(s, i) = "/" THEN 1 + LeadingSlashes(s, i + 1) ELSE 0

PurePosixPath(s) ==
    LET n == LeadingSlashes(s, 1)
    IN  [root |-> IF n = 0 THEN "" ELSE IF n = 2 THEN "//" ELSE "/",
         segs |-> SelectSeq(SplitSlash(s), LAMBDA x : x # "" /\ x # ".")]

\* p / q
JoinPath(p, q) ==
    IF q.root # "" THEN q
    ELSE [root |-> p.root, segs |-> p.segs \o q.segs]

\* p.parent
Parent(p) ==
    IF Len(p.segs) = 0 THEN p
    ELSE [root |-> p.root, segs |-> SubSeq(p.segs, 1, Len(p.segs) - 1)]

\* p.parts
Parts(p) == IF p.root # "" THEN <<p.root>> \o p.segs ELSE p.segs

\* p.name
Name(p) == IF Len(p.segs) = 0 THEN "" ELSE p.segs[Len(p.segs)]

\* p.as_posix()
AsPosix(p) ==
    IF p.root = "" /\ Len(p.segs) = 0 THEN "."
    ELSE p.root \o JoinSlash(p.segs)

(***************************************************************************)
(* The href resolver.                                                      *)
(***************************************************************************)

\* The loop over parts of normalize_path: '..' pops when there is something
\* to pop, '.' is skipped, anything else is appended.
RECURSIVE CollapseParts(_, _)
CollapseParts(parts, normalized_parts) ==
    IF Len(parts) = 0 THEN normalized_parts
    ELSE LET part == Head(parts)
         IN  IF part = ".."
             THEN IF Len(normalized_parts) > 0
                  THEN CollapseParts(Tail(parts),
                           SubSeq(normalized_parts, 1, Len(normalized_parts) - 1))
                  ELSE CollapseParts(Tail(parts), normalized_parts)
             ELSE IF part # "."
                  THEN CollapseParts(Tail(parts), Append(normalized_parts, part))
                  ELSE CollapseParts(Tail(parts), normalized_parts)

\* resolve_href of detect_no_toc.py.
resolve_href(opf_dir, href) ==
    IF opf_dir = "" THEN AsPosix(PurePosixPath(unquote(href)))
    ELSE AsPosix(JoinPath(PurePosixPath(opf_dir), PurePosixPath(unquote(href))))

\* `'/'.join(normalized_parts) if normalized_parts else ''`
JoinOrEmpty(normalized_parts) ==
    IF Len(normalized_parts) > 0 THEN JoinSlash(normalized_parts) ELSE ""

\* normalize_path from `resolved = ...` on, with the base itself taken for
\* its directory.
ResolveDecodedNoParent(base_path, decoded_href) ==
    JoinOrEmpty(CollapseParts(
        Parts(PurePosixPath(AsPosix(JoinPath(PurePosixPath(base_path),
                                             PurePosixPath(decoded_href))))),
        <<>>))

\* normalize_path from `resolved = ...` on: the decoded href joined to the
\* parent of the base path, its parts collapsed and joined.
ResolveDecoded(base_path, decoded_href) ==
    JoinOrEmpty(CollapseParts(
        Parts(PurePosixPath(AsPosix(JoinPath(Parent(PurePosixPath(base_path)),
                                             PurePosixPath(decoded_href))))),
        <<>>))

\* normalize_path of detect_no_toc.py after `decoded_href = unquote(href)`.
NormalizeDecoded(base_path, decoded_href) ==
    IF base_path = "" THEN AsPosix(PurePosixPath(decoded_href))
    ELSE ResolveDecoded(base_path, decoded_href)

\* normalize_path of detect_no_toc.py.
normalize_path(base_path, href) == NormalizeDecoded(base_path, unquote(href))

\* normalize_path of check_copyright_toc.py after `decoded = unquote(href)`:
\* a decoded href that names an archive entry is returned as it is.
CcNormalizeDecoded(base_path, decoded, namelist) ==
    IF decoded \in namelist THEN decoded
    ELSE IF base_path = "" THEN AsPosix(PurePosixPath(decoded))
    ELSE ResolveDecoded(base_path, decoded)

\* normalize_path of check_copyright_toc.py.
cc_normalize_path(base_path, href, namelist) ==
    CcNormalizeDecoded(base_path, unquote(href), namelist)

\* strip_fragment left out.
keep_fragment(href) == href

\* strip_fragment (both files): href.split('#', 1)[0].
strip_fragment(href) ==
    LET k == IndexOf("#", href)
    IN  IF k = 0 THEN href ELSE SubSeq(href, 1, k - 1)

(***************************************************************************)
(* The package as the checks read it.  An EPUB is a record: whether the    *)
(* archive opens (zip_ok), the package document's path as find_opf_path    *)
(* gives it (None when there is none), whether parse_opf returns           *)
(* (opf_ok), the manifest in document order, the spine, the spine's toc    *)
(* attribute, the archive's names, and for every name what a tolerant      *)
(* parse of that member yields: broken when the parse raises, anchors (the *)
(* href and text of the first anchor of each list item of the TOC          *)
(* navigation element) and navpoints (the content src and text label of    *)
(* each navPoint).  An absent href or src is the empty string.             *)
(***************************************************************************)

NCX_MEDIA_TYPE == "application/x-dtbncx+xml"

\* Python's s.split(): the pieces between blanks, empty pieces dropped.
RECURSIVE WordsFrom(_, _, _)
WordsFrom(s, i, cur) ==
    IF i > Len(s) THEN (IF cur = "" THEN <<>> ELSE <<cur>>)
    ELSE IF Char(s, i) = " "
    THEN (IF cur = "" THEN <<>> ELSE <<cur>>) \o WordsFrom(s, i + 1, "")
    ELSE WordsFrom(s, i + 1, cur \o Char(s, i))

Words(s) == WordsFrom(s, 1, "")

\* x in a list.
InSeq(x, q) == \E k \in 1..Len(q) : q[k] = x

\* `idref in manifest`, and manifest[idref].
InManifest(manifest, idref) == \E k \in 1..Len(manifest) : manifest[k].id = idref

ManifestGet(manifest, idref) ==
    manifest[CHOOSE k \in 1..Len(manifest) : manifest[k].id = idref]

\* opf_dir of parse_opf: PurePosixPath(opf_path).parent.as_posix().
opf_dir_of(opf_path) == AsPosix(Parent(PurePosixPath(opf_path)))

(***************************************************************************)
(* detect_no_toc.py: content files, TOC extraction, classification.        *)
(***************************************************************************)

ContentSuffixes == {".xhtml", ".html", ".htm", ".xml"}

FileKeywords == {"cover", "title", "copyright", "toc"}

\* The test of get_content_files on a resolved href.
IsContentHref(href) ==
    /\ \E suffix \in ContentSuffixes : EndsWith(Lower(href), suffix)
    /\ ~\E kw \in FileKeywords : Contains(Lower(Name(PurePosixPath(href))), kw)

\* The path of the spine's k-th document.
SpineHref(manifest, spine, opf_dir, k) ==
    resolve_href(opf_dir, ManifestGet(manifest, spine[k]).href)

RECURSIVE ContentFilesFrom(_, _, _, _)
ContentFilesFrom(manifest, spine, opf_dir, k) ==
    IF k > Len(spine) THEN <<>>
    ELSE IF /\ InManifest(manifest, spine[k])
            /\ IsContentHref(SpineHref(manifest, spine, opf_dir, k))
    THEN <<SpineHref(manifest, spine, opf_dir, k)>>
             \o ContentFilesFrom(manifest, spine, opf_dir, k + 1)
    ELSE ContentFilesFrom(manifest, spine, opf_dir, k + 1)

\* get_content_files: the list of content documents, in spine order.
get_content_files(manifest, spine, opf_dir) ==
    ContentFilesFrom(manifest, spine, opf_dir, 1)

\* The entries of the first anchors found in a navigation document.
RECURSIVE AnchorEntries(_, _)
AnchorEntries(anchors, nav_path) ==
    IF Len(anchors) = 0 THEN <<>>
    ELSE IF Head(anchors).href # ""
    THEN <<[href |-> Head(anchors).href, text |-> Strip(Head(anchors).text),
            source |-> nav_path]>> \o AnchorEntries(Tail(anchors), nav_path)
    ELSE AnchorEntries(Tail(anchors), nav_path)

\* Whether the nav item at nav_path is read: the archive holds it and its
\* parse does not raise.
NavReadable(e, nav_path) ==
    nav_path \in e.namelist /\ ~e.docs[nav_path].broken

RECURSIVE NavEntriesFrom(_, _, _)
NavEntriesFrom(e, opf_dir, k) ==
    IF k > Len(e.manifest) THEN <<>>
    ELSE IF /\ InSeq("nav", Words(e.manifest[k].properties))
            /\ NavReadable(e, resolve_href(opf_dir, e.manifest[k].href))
    THEN AnchorEntries(e.docs[resolve_href(opf_dir, e.manifest[k].href)].anchors,
                       resolve_href(opf_dir, e.manifest[k].href))
    ELSE NavEntriesFrom(e, opf_dir, k + 1)

\* extract_nav_entries: the entries of the first navigation document that
\* is in the archive and parses.
extract_nav_entries(e, opf_dir) == NavEntriesFrom(e, opf_dir, 1)

\* The manifest id of the navigation map: the spine's toc id when the
\* manifest has it, else the first item of the NCX media type, else None.
ncx_id_of(manifest, spine_toc) ==
    IF spine_toc # None /\ spine_toc # "" /\ InManifest(manifest, spine_toc)
    THEN spine_toc
    ELSE IF \E k \in 1..Len(manifest) : manifest[k].media_type = NCX_MEDIA_TYPE
    THEN manifest[CHOOSE k \in 1..Len(manifest) :
                      /\ manifest[k].media_type = NCX_MEDIA_TYPE
                      /\ \A j \in 1..(k - 1) :
                             manifest[j].media_type # NCX_MEDIA_TYPE].id
    ELSE None

RECURSIVE NavPointEntries(_, _)
NavPointEntries(navpoints, ncx_href) ==
    IF Len(navpoints) = 0 THEN <<>>
    ELSE IF Head(navpoints).src # ""
    THEN <<[href |-> Head(navpoints).src, text |-> Strip(Head(navpoints).text),
            source |-> ncx_href]>> \o NavPointEntries(Tail(navpoints), ncx_href)
    ELSE NavPointEntries(Tail(navpoints), ncx_href)

\* extract_ncx_entries from `if ncx_href not in z.namelist()` on.
NcxEntriesAt(e, ncx_href) ==
    IF ncx_href \notin e.namelist THEN <<>>
    ELSE IF e.docs[ncx_href].broken THEN <<>>
    ELSE NavPointEntries(e.docs[ncx_href].navpoints, ncx_href)

\* extract_ncx_entries from `if not ncx_id` on.
NcxEntriesOf(e, opf_dir, ncx_id) ==
    IF ncx_id = None THEN <<>>
    ELSE NcxEntriesAt(e, resolve_href(opf_dir, ManifestGet(e.manifest, ncx_id).href))

\* extract_ncx_entries.
extract_ncx_entries(e, opf_dir) ==
    NcxEntriesOf(e, opf_dir, ncx_id_of(e.manifest, e.spine_toc))

\* Concatenating the two sources.
select_toc_entries_both(nav_entries, ncx_entries) == nav_entries \o ncx_entries

\* `toc_entries = nav_entries if nav_entries else ncx_entries`
select_toc_entries(nav_entries, ncx_entries) ==
    IF Len(nav_entries) > 0 THEN nav_entries ELSE ncx_entries

boilerplate_keywords ==
    {"cover", "title", "title page", "copyright", "table of contents",
     "toc", "contents", "frontmatter", "front matter", "titlepage",
     "dedication", "epigraph", "about the author", "also by",
     "books by", "acknowledgments", "acknowledgements"}

\* The label test with every keyword matched as a substring.
is_boilerplate_text_any(text) ==
    \E keyword \in boilerplate_keywords : Contains(text, keyword)

\* is_boilerplate_text of analyze_toc_structure.
is_boilerplate_text(text) ==
    \/ text \in boilerplate_keywords
    \/ \E keyword \in {"cover", "title page", "copyright"} : Contains(text, keyword)

\* is_boilerplate_file of analyze_toc_structure.
is_boilerplate_file(filename) ==
    \E keyword \in {"cover", "title", "copyright", "toc"} : Contains(filename, keyword)

\* The target of an entry: its href without fragment, resolved against the
\* document it comes from.
target_of(entry) == normalize_path(entry.source, strip_fragment(entry.href))

\* The test of the first loop of analyze_toc_structure, on the label
\* lower-cased and trimmed and on the resolved target.
KeepTest(text, normalized, content_files) ==
    /\ ~is_boilerplate_text(text)
    /\ ~is_boilerplate_file(Lower(Name(PurePosixPath(normalized))))
    /\ InSeq(normalized, content_files)

is_content_entry(entry, content_files) ==
    KeepTest(Strip(Lower(entry.text)), target_of(entry), content_files)

\* The local content_entries of analyze_toc_structure.
content_entries_of(toc_entries, content_files) ==
    SelectSeq(toc_entries, LAMBDA entry : is_content_entry(entry, content_files))

\* The local unique_targets of analyze_toc_structure.
unique_targets_of(content_entries, content_files) ==
    {t \in {target_of(content_entries[k]) : k \in 1..Len(content_entries)} :
        InSeq(t, content_files)}

\* What analyze_toc_structure returns for a TOC that has entries.
TocStructure(content_entries, unique_targets) ==
    [has_toc |-> TRUE,
     content_entries |-> Len(content_entries),
     unique_targets |-> Cardinality(unique_targets),
     single_file_target |->
         IF Cardinality(unique_targets) = 1
         THEN CHOOSE t \in unique_targets : TRUE
         ELSE None]

\* The second loop and the return of analyze_toc_structure.
TocStructureOf(content_entries, content_files) ==
    TocStructure(content_entries, unique_targets_of(content_entries, content_files))

\* analyze_toc_structure.
analyze_toc_structure(toc_entries, content_files) ==
    IF Len(toc_entries) = 0
    THEN [has_toc |-> FALSE, content_entries |-> 0, unique_targets |-> 0,
          single_file_target |-> None]
    ELSE TocStructureOf(content_entries_of(toc_entries, content_files),
                        content_files)

\* The reasons added after analyze_toc_structure.
toc_reasons(toc_analysis) ==
    IF ~toc_analysis.has_toc THEN <<"no_toc">>
    ELSE IF toc_analysis.content_entries = 0 THEN <<"toc_has_no_content_entries">>
    ELSE IF toc_analysis.content_entries = 1 THEN <<"single_toc_entry">>
    ELSE <<>>

\* What one run of the try block of analyze_epub_single_chapter goes
\* through: whether it raises, how far it gets ("open", "opf", "content",
\* "toc"), the locals it has set by then, the reasons returned.
SingleBlank ==
    [raised |-> FALSE, reached |-> "open", content_files |-> <<>>,
     nav_entries |-> <<>>, ncx_entries |-> <<>>, toc_entries |-> <<>>,
     kept |-> <<>>,
     toc_analysis |-> [has_toc |-> FALSE, content_entries |-> 0,
                       unique_targets |-> 0, single_file_target |-> None],
     reasons |-> <<>>]

\* The run from analyze_toc_structure on (kept is its local
\* content_entries).
Classified(content_files, nav_entries, ncx_entries, toc_entries, toc_analysis) ==
    [raised |-> FALSE, reached |-> "toc", content_files |-> content_files,
     nav_entries |-> nav_entries, ncx_entries |-> ncx_entries,
     toc_entries |-> toc_entries,
     kept |-> content_entries_of(toc_entries, content_files),
     toc_analysis |-> toc_analysis,
     reasons |-> toc_reasons(toc_analysis)]

\* The run from `toc_entries = ...` on.
WithEntries(content_files, nav_entries, ncx_entries, toc_entries) ==
    Classified(content_files, nav_entries, ncx_entries, toc_entries,
               analyze_toc_structure(toc_entries, content_files))

\* The run from `if not content_files` on, with the TOC looked at before
\* the content files.
WithContentFilesTocFirst(e, opf_dir, content_files) ==
    IF /\ Len(content_files) = 0
       /\ Len(extract_nav_entries(e, opf_dir)) + Len(extract_ncx_entries(e, opf_dir)) > 0
    THEN [SingleBlank EXCEPT !.reached = "content",
                             !.content_files = content_files,
                             !.reasons = <<"no_content_files">>]
    ELSE WithEntries(content_files, extract_nav_entries(e, opf_dir),
                     extract_ncx_entries(e, opf_dir),
                     select_toc_entries(extract_nav_entries(e, opf_dir),
                                        extract_ncx_entries(e, opf_dir)))

\* The run from `if not content_files` on.
WithContentFiles(e, opf_dir, content_files) ==
    IF Len(content_files) = 0
    THEN [SingleBlank EXCEPT !.reached = "content",
                             !.content_files = content_files,
                             !.reasons = <<"no_content_files">>]
    ELSE WithEntries(content_files, extract_nav_entries(e, opf_dir),
                     extract_ncx_entries(e, opf_dir),
                     select_toc_entries(extract_nav_entries(e, opf_dir),
                                        extract_ncx_entries(e, opf_dir)))

\* The try block of analyze_epub_single_chapter.
single_chapter_body(e) ==
    IF ~e.zip_ok THEN [SingleBlank EXCEPT !.raised = TRUE]
    ELSE IF e.opf_path = None
    THEN [SingleBlank EXCEPT !.reached = "opf", !.reasons = <<"no_opf">>]
    ELSE IF ~e.opf_ok THEN [SingleBlank EXCEPT !.raised = TRUE, !.reached = "opf"]
    ELSE WithContentFiles(e, opf_dir_of(e.opf_path),
             get_content_files(e.manifest, e.spine, opf_dir_of(e.opf_path)))

\* `except Exception` left out: what the try block raises goes on to the
\* caller.
CatchNothing(run) == run

\* `except Exception: return ['error_parsing_epub']`
CatchException(run) ==
    IF run.raised
    THEN [run EXCEPT !.raised = FALSE, !.reasons = <<"error_parsing_epub">>]
    ELSE run

\* analyze_epub_single_chapter.
analyze_epub_single_chapter(e) == CatchException(single_chapter_body(e))

(***************************************************************************)
(* check_copyright_toc.py: the copyright check of one EPUB.  What the      *)
(* imported collaborators return is part of the EPUB: resolved, the path   *)
(* resolve_href gives for each manifest href; xhtml_paths, the list of     *)
(* get_spine_xhtml_paths; scores, what score_file gives for each of them;  *)
(* scan_ok, whether those calls return; fault, the message of the          *)
(* exception the archive or the package document raises.                   *)
(***************************************************************************)

\* The loop's locals before the first document.
ScanStart == [best_index |-> NoIndex, best_score |-> 0, second_score |-> 0]

\* The loop body with the elif branch left out.
ScanStepNoSecond(st, i, score) ==
    IF score > st.best_score
    THEN [best_index |-> i, best_score |-> score, second_score |-> st.best_score]
    ELSE st

\* The loop body for document i (1-based) of score `score`.
ScanStep(st, i, score) ==
    IF score > st.best_score
    THEN [best_index |-> i, best_score |-> score, second_score |-> st.best_score]
    ELSE IF score > st.second_score
    THEN [best_index |-> st.best_index, best_score |-> st.best_score,
          second_score |-> score]
    ELSE st

\* best_score < second_score * 1.5, in integers.
Ambiguous(st) ==
    st.best_score > 0 /\ st.second_score > 0
        /\ 2 * st.best_score < 3 * st.second_score

\* What is returned after the loop: the index of the path returned, NoIndex
\* for None.
Verdict(st, CONFIDENCE_THRESHOLD) ==
    IF st.best_score < CONFIDENCE_THRESHOLD THEN NoIndex
    ELSE IF Ambiguous(st) THEN NoIndex
    ELSE st.best_index

RECURSIVE ScanFrom(_, _, _)
ScanFrom(scores, i, st) ==
    IF i > Len(scores) THEN st
    ELSE ScanFrom(scores, i + 1, ScanStep(st, i, scores[i]))

\* find_copyright_path as a function of the documents' scores.
find_copyright_path(scores, CONFIDENCE_THRESHOLD) ==
    IF Len(scores) = 0 THEN NoIndex
    ELSE Verdict(ScanFrom(scores, 1, ScanStart), CONFIDENCE_THRESHOLD)

\* `[(c.get('src'), ncx_href) for c in content_elems if c.get('src')]`
RECURSIVE SrcPairs(_, _)
SrcPairs(navpoints, ncx_href) ==
    IF Len(navpoints) = 0 THEN <<>>
    ELSE IF Head(navpoints).src # ""
    THEN <<[href |-> Head(navpoints).src, source |-> ncx_href]>>
             \o SrcPairs(Tail(navpoints), ncx_href)
    ELSE SrcPairs(Tail(navpoints), ncx_href)

\* extract_ncx_hrefs from `if ncx_href not in z.namelist()` on.  What it
\* returns is a record: is_none for a first component None, hrefs (empty
\* when None), error ("" for a second component None).
NcxHrefsAt(e, ncx_href) ==
    IF ncx_href \notin e.namelist
    THEN [is_none |-> TRUE, hrefs |-> <<>>,
          error |-> "NCX file missing from zip: " \o ncx_href]
    ELSE IF e.docs[ncx_href].broken
    THEN [is_none |-> TRUE, hrefs |-> <<>>,
          error |-> "NCX parse error: " \o e.docs[ncx_href].fault]
    ELSE [is_none |-> FALSE,
          hrefs |-> SrcPairs(e.docs[ncx_href].navpoints, ncx_href),
          error |-> ""]

\* extract_ncx_hrefs from `if not ncx_id` on, were absence returned without
\* its warning.
NcxHrefsOfSilent(e, ncx_id) ==
    IF ncx_id = None
    THEN [is_none |-> TRUE, hrefs |-> <<>>, error |-> ""]
    ELSE NcxHrefsAt(e, e.resolved[ManifestGet(e.manifest, ncx_id).href])

\* extract_ncx_hrefs from `if not ncx_id` on.
NcxHrefsOf(e, ncx_id) ==
    IF ncx_id = None
    THEN [is_none |-> TRUE, hrefs |-> <<>>, error |-> "NO NCX FOUND"]
    ELSE NcxHrefsAt(e, e.resolved[ManifestGet(e.manifest, ncx_id).href])

\* extract_ncx_hrefs.
extract_ncx_hrefs(e) == NcxHrefsOf(e, ncx_id_of(e.manifest, e.spine_toc))

\* The links of a human TOC page, each with the page as its source.
RECURSIVE LinkPairs(_, _)
LinkPairs(anchors, href) ==
    IF Len(anchors) = 0 THEN <<>>
    ELSE IF Head(anchors).href # ""
    THEN <<[href |-> Head(anchors).href, source |-> href]>>
             \o LinkPairs(Tail(anchors), href)
    ELSE LinkPairs(Tail(anchors), href)

\* Whether extract_human_toc_hrefs reads the spine document at href: its
\* filename holds toc or contents, the archive holds it, its parse does
\* not raise.
IsHumanTocPage(e, href) ==
    /\ \/ Contains(Lower(Name(PurePosixPath(href))), "toc")
       \/ Contains(Lower(Name(PurePosixPath(href))), "contents")
    /\ href \in e.namelist
    /\ ~e.docs[href].broken

RECURSIVE HumanHrefsFrom(_, _)
HumanHrefsFrom(e, k) ==
    IF k > Len(e.spine) THEN <<>>
    ELSE IF /\ InManifest(e.manifest, e.spine[k])
            /\ IsHumanTocPage(e, e.resolved[ManifestGet(e.manifest, e.spine[k]).href])
    THEN LinkPairs(e.docs[e.resolved[ManifestGet(e.manifest, e.spine[k]).href]].anchors,
                   e.resolved[ManifestGet(e.manifest, e.spine[k]).href])
             \o HumanHrefsFrom(e, k + 1)
    ELSE HumanHrefsFrom(e, k + 1)

\* extract_human_toc_hrefs.
extract_human_toc_hrefs(e) == HumanHrefsFrom(e, 1)

\* hrefs_contain_path.
hrefs_contain_path(hrefs, copyright_path, namelist) ==
    \E k \in 1..Len(hrefs) :
        Parts(PurePosixPath(cc_normalize_path(hrefs[k].source,
                                              strip_fragment(hrefs[k].href),
                                              namelist)))
            = Parts(PurePosixPath(copyright_path))

\* What one run of the try block of analyze_epub goes through: whether it
\* raises and with what message, how far it gets ("open", "opf", "locate",
\* "hits"), the locals it has set by then, and the pair returned: result
\* (the empty list for None) and warnings.
CopyrightBlank ==
    [raised |-> FALSE, fault |-> "", reached |-> "open",
     ncx_hrefs |-> <<>>, ncx_is_none |-> TRUE, copyright_path |-> None,
     human_hrefs |-> <<>>, result |-> <<>>, warnings |-> <<>>]

\* `if ncx_error: warnings.append(ncx_error)`
NcxWarnings(ncx) == IF ncx.error # "" THEN <<ncx.error>> ELSE <<>>

\* The two tests that fill hits.
HitsOf(ncx_hrefs, human_hrefs, copyright_path, namelist) ==
    (IF Len(ncx_hrefs) > 0 /\ hrefs_contain_path(ncx_hrefs, copyright_path, namelist)
     THEN <<"in ncx">> ELSE <<>>)
    \o (IF hrefs_contain_path(human_hrefs, copyright_path, namelist)
        THEN <<"in human toc page">> ELSE <<>>)

\* The run from `namelist = set(z.namelist())` on.
WithCopyrightPath(e, ncx, copyright_path, human_hrefs) ==
    [CopyrightBlank EXCEPT
        !.reached = "hits", !.ncx_hrefs = ncx.hrefs, !.ncx_is_none = ncx.is_none,
        !.copyright_path = copyright_path, !.human_hrefs = human_hrefs,
        !.result = HitsOf(ncx.hrefs, human_hrefs, copyright_path, e.namelist),
        !.warnings = NcxWarnings(ncx)]

\* The run from `if copyright_path is None` on; best is the index
\* find_copyright_path stops at.
WithBest(e, ncx, best) ==
    IF best = NoIndex
    THEN [CopyrightBlank EXCEPT
              !.reached = "locate", !.ncx_hrefs = ncx.hrefs,
              !.ncx_is_none = ncx.is_none, !.warnings = NcxWarnings(ncx)]
    ELSE WithCopyrightPath(e, ncx, e.xhtml_paths[best], extract_human_toc_hrefs(e))

\* The run from `copyright_path = find_copyright_path(...)` on.
WithNcxHrefs(e, CONFIDENCE_THRESHOLD, ncx) ==
    IF ~e.scan_ok
    THEN [CopyrightBlank EXCEPT !.raised = TRUE, !.fault = e.fault,
                                !.reached = "locate"]
    ELSE WithBest(e, ncx, find_copyright_path(e.scores, CONFIDENCE_THRESHOLD))

\* The try block of analyze_epub.
analyze_epub_body(e, CONFIDENCE_THRESHOLD) ==
    IF ~e.zip_ok THEN [CopyrightBlank EXCEPT !.raised = TRUE, !.fault = e.fault]
    ELSE IF e.opf_path = None
    THEN [CopyrightBlank EXCEPT !.reached = "opf", !.warnings = <<"OPF not found">>]
    ELSE IF ~e.opf_ok
    THEN [CopyrightBlank EXCEPT !.raised = TRUE, !.fault = e.fault, !.reached = "opf"]
    ELSE WithNcxHrefs(e, CONFIDENCE_THRESHOLD, extract_ncx_hrefs(e))

\* `except Exception as e: return None, [f'error: {e}']`
CatchError(run) ==
    IF run.raised
    THEN [run EXCEPT !.raised = FALSE, !.result = <<>>,
                     !.warnings = <<"error: " \o run.fault>>]
    ELSE run

\* analyze_epub.
analyze_epub(e, CONFIDENCE_THRESHOLD) ==
    CatchError(analyze_epub_body(e, CONFIDENCE_THRESHOLD))

(***************************************************************************)
(* The batch drivers: main of detect_no_toc.py and of                      *)
(* check_copyright_toc.py.  A path is a number, paths ordered as numbers;  *)
(* the path epub_path is that of the file book<epub_path>.epub.  A line    *)
(* printed is a record of the path it is about (NoIndex when it is about   *)
(* none) and its text.                                                     *)
(***************************************************************************)

\* sorted(p.rglob('*.epub')) for the set of paths the folder holds.
RECURSIVE Sorted(_)
Sorted(paths) ==
    IF paths = {} THEN <<>>
    ELSE <<CHOOSE x \in paths : \A y \in paths : x <= y>>
             \o Sorted(paths \ {CHOOSE x \in paths : \A y \in paths : x <= y})

\* `epub.name.replace('.epub', '')`
NameOf(epub_path) == "book" \o ToString(epub_path)

\* `name[:30]`
Prefix30(name) == SubSeq(name, 1, IF Len(name) < 30 THEN Len(name) ELSE 30)

\* `', '.join(items)`
RECURSIVE JoinComma(_)
JoinComma(items) ==
    IF Len(items) = 0 THEN ""
    ELSE IF Len(items) = 1 THEN items[1]
    ELSE items[1] \o ", " \o JoinComma(Tail(items))

\* The body of the loop of detect_no_toc.main after the call; an exception
\* the call lets through leaves main.
DetectReport(b, epub_path, run) ==
    IF run.raised THEN [b EXCEPT !.pc = "crashed"]
    ELSE IF Len(run.reasons) > 0
    THEN [b EXCEPT !.i = @ + 1, !.analysed = Append(@, epub_path),
                   !.found = @ + 1,
                   !.out = Append(@, [path |-> epub_path,
                                      text |-> NameOf(epub_path) \o ": "
                                                   \o JoinComma(run.reasons)])]
    ELSE [b EXCEPT !.i = @ + 1, !.analysed = Append(@, epub_path)]

\* `for w in warnings: print(f"{name[:30]}: {w}")`
WarningLines(epub_path, warnings) ==
    [k \in 1..Len(warnings) |->
        [path |-> epub_path,
         text |-> Prefix30(NameOf(epub_path)) \o ": " \o warnings[k]]]

\* The body of the loop of check_copyright_toc.main after the call.
CopyrightReport(b, epub_path, run) ==
    IF run.raised THEN [b EXCEPT !.pc = "crashed"]
    ELSE IF Len(run.result) > 0
    THEN [b EXCEPT !.i = @ + 1, !.analysed = Append(@, epub_path),
                   !.found = @ + 1,
                   !.out = @ \o WarningLines(epub_path, run.warnings)
                             \o <<[path |-> epub_path,
                                   text |-> Prefix30(NameOf(epub_path)) \o ": "
                                                \o JoinComma(run.result)]>>]
    ELSE [b EXCEPT !.i = @ + 1, !.analysed = Append(@, epub_path),
                   !.out = @ \o WarningLines(epub_path, run.warnings)]

(***************************************************************************)
(* State.  Each specification below runs one part of the program and       *)
(* leaves the variables of the other parts at rest.                        *)
(***************************************************************************)

VARIABLES
    \* normalize_path applied to one input: pc, the arguments base_path,
    \* href and namelist, the results of both files' normalize_path (out,
    \* cc_out) and of applying them to those results (again, cc_again)
    resolver,
    \* find_copyright_path: pc, the value of the imported
    \* CONFIDENCE_THRESHOLD, the scores of the spine documents, the loop's
    \* position i and locals, the returned index
    locator,
    \* analyze_epub_single_chapter on one EPUB: pc, the EPUB, and what the
    \* call went through and returned (run)
    single,
    \* analyze_epub of check_copyright_toc.py on one EPUB: pc, the value of
    \* CONFIDENCE_THRESHOLD, the EPUB, and what the call went through and
    \* returned (run)
    copyright,
    \* main of either file: pc, the driver, the folder, the sorted paths,
    \* the loop's position, the paths analysed and the lines printed
    batch

vars == <<resolver, locator, single, copyright, batch>>

\* What each part leaves alone.
resolver_others == <<locator, single, copyright, batch>>
locator_others == <<resolver, single, copyright, batch>>
single_others == <<resolver, locator, copyright, batch>>
copyright_others == <<resolver, locator, single, batch>>
batch_others == <<resolver, locator, single, copyright>>

ResolverRest ==
    [pc |-> "idle", base_path |-> "", href |-> "", namelist |-> {},
     out |-> None, cc_out |-> None, again |-> None, cc_again |-> None]

SingleRest == [pc |-> "idle"]

CopyrightRest == [pc |-> "idle"]

BatchRest == [pc |-> "idle"]

LocatorRest ==
    [pc |-> "idle", CONFIDENCE_THRESHOLD |-> 0, scores |-> <<>>, i |-> 0, best_index |-> NoIndex,
     best_score |-> 0, second_score |-> 0, result |-> NoIndex]

(***************************************************************************)
(* SpecResolve: normalize_path of both files on one input, then on its     *)
(* own result.                                                             *)
(***************************************************************************)

\* The longest href, in segments.
MaxSegs == 3

SegPool == {"a", ".", "..", "d.xhtml", "b.xhtml", "%2E%2E", "c%2541"}

\* The hrefs of exactly n segments of SegPool.
RECURSIVE SegHrefs(_)
SegHrefs(n) ==
    IF n = 1 THEN SegPool
    ELSE {h \o "/" \o seg : h \in SegHrefs(n - 1), seg \in SegPool}

Hrefs ==
    UNION {SegHrefs(n) : n \in 1..MaxSegs} \cup {"", "/d.xhtml", "a//d.xhtml"}

BasePaths == {"", "a.xhtml", "a/b/c.xhtml", "/x/toc.ncx"}

Namelists == {{}, {"d.xhtml", "a/d.xhtml", "a/../d.xhtml", "c%41"}}

ResolveInit ==
    /\ resolver \in {[ResolverRest EXCEPT !.pc = "input", !.base_path = b,
                                          !.href = h, !.namelist = n] :
                         b \in BasePaths, h \in Hrefs, n \in Namelists}
    /\ locator = LocatorRest
    /\ single = SingleRest
    /\ copyright = CopyrightRest
    /\ batch = BatchRest

\* normalize_path(base, href) in both files.
Resolve ==
    /\ resolver.pc = "input"
    /\ resolver' =
           [resolver EXCEPT
                !.pc = "resolved",
                !.out = normalize_path(resolver.base_path, resolver.href),
                !.cc_out = cc_normalize_path(resolver.base_path, resolver.href,
                                             resolver.namelist)]
    /\ UNCHANGED resolver_others

\* normalize_path(base, normalize_path(base, href)) in both files.
ReResolve ==
    /\ resolver.pc = "resolved"
    /\ resolver' =
           [resolver EXCEPT
                !.pc = "again",
                !.again = normalize_path(resolver.base_path, resolver.out),
                !.cc_again = cc_normalize_path(resolver.base_path,
                                               resolver.cc_out,
                                               resolver.namelist)]
    /\ UNCHANGED resolver_others

ResolveNext == Resolve \/ ReResolve

SpecResolve == ResolveInit /\ [][ResolveNext]_vars

(***************************************************************************)
(* The resolver's claims.                                                  *)
(***************************************************************************)

\* The stack resolution as the specification words it: the segments of the
\* base's directory, then those of the decoded href, left to right; '..'
\* pops the last output segment if there is one, '.' is dropped, any other
\* segment is pushed; the output segments are joined by '/'.
RefSegments(s) == SelectSeq(SplitSlash(s), LAMBDA x : x # "")

RefDir(base) ==
    LET segs == RefSegments(base)
    IN  IF Len(segs) = 0 THEN <<>> ELSE SubSeq(segs, 1, Len(segs) - 1)

RECURSIVE RefStack(_, _)
RefStack(segs, stack) ==
    IF Len(segs) = 0 THEN stack
    ELSE RefStack(Tail(segs),
             CASE Head(segs) = ".." ->
                      IF Len(stack) = 0 THEN stack
                      ELSE SubSeq(stack, 1, Len(stack) - 1)
               [] Head(segs) = "." -> stack
               [] OTHER -> Append(stack, Head(segs)))

\* An href with everything from its first '#' removed.
RefCut(href) ==
    IF \E k \in 1..Len(href) : Char(href, k) = "#"
    THEN SubSeq(href, 1,
             (CHOOSE k \in 1..Len(href) :
                  /\ Char(href, k) = "#"
                  /\ \A j \in 1..(k - 1) : Char(href, j) # "#") - 1)
    ELSE href

RefResolve(base, h) ==
    JoinSlash(RefStack(RefDir(base) \o RefSegments(unquote(h)), <<>>))

IsRelative(s) == Len(s) = 0 \/ Char(s, 1) # "/"

NoDotSegment(path) ==
    \A k \in 1..Len(SplitSlash(path)) : SplitSlash(path)[k] \notin {".", ".."}

\* Where the result of the check_copyright_toc.py variant is the resolution,
\* not an archive name taken as it is.
CcResolves == unquote(resolver.href) \notin resolver.namelist

\* C2 (as claimed): resolving a resolved path again returns it unchanged,
\* in both files' normalize_path.
C2_ResolveIdempotent ==
    resolver.pc = "again" =>
        resolver.again = resolver.out /\ resolver.cc_again = resolver.cc_out

\* C3 (as claimed): for every base path and href the result is the stack
\* resolution against the directory of the base and has no '.' or '..'
\* segment.
C3_StackResolutionEveryBase ==
    resolver.pc \in {"resolved", "again"} =>
        /\ resolver.out = RefResolve(resolver.base_path, resolver.href)
        /\ NoDotSegment(resolver.out)
        /\ CcResolves =>
               resolver.cc_out = RefResolve(resolver.base_path, resolver.href)
        /\ CcResolves => NoDotSegment(resolver.cc_out)

\* C3 (amended): for every non-empty base path, and every href the
\* exact-match short-circuit does not take, the result has no '.' or '..'
\* segment; when the base and the decoded href are relative paths the
\* result is the stack resolution against the directory of the base ('..'
\* on an empty stack is a no-op, an empty stack yields the empty string),
\* so resolve("a/b/c.xhtml", "../d.xhtml") = "a/d.xhtml" and
\* resolve("a.xhtml", "../../b.xhtml") = "b.xhtml".
C3_StackResolution ==
    (resolver.pc \in {"resolved", "again"} /\ resolver.base_path # "") =>
        /\ NoDotSegment(resolver.out)
        /\ CcResolves => resolver.cc_out = resolver.out
        /\ (IsRelative(resolver.base_path) /\ IsRelative(unquote(resolver.href)))
               => resolver.out = RefResolve(resolver.base_path, resolver.href)
        /\ (resolver.base_path = "a/b/c.xhtml" /\ resolver.href = "../d.xhtml")
               => resolver.out = "a/d.xhtml"
        /\ (resolver.base_path = "a.xhtml" /\ resolver.href = "../../b.xhtml")
               => resolver.out = "b.xhtml"

\* C3's case: '..' met on an empty stack, and a result that is the empty
\* string.
C3_Witness ==
    \/ /\ resolver.pc = "resolved"
       /\ resolver.base_path = "a.xhtml"
       /\ resolver.href = "../../b.xhtml"
       /\ resolver.out = "b.xhtml"
       /\ resolver.cc_out = "b.xhtml"
    \/ /\ resolver.pc = "resolved"
       /\ resolver.base_path = "a/b/c.xhtml"
       /\ resolver.href = "../.."
       /\ resolver.out = ""

\* C9 (as claimed): in both files' normalize_path an href whose decoded form
\* names an archive entry is returned as that name, whatever the base.
C9_ExactMatchShortCircuit ==
    (resolver.pc \in {"resolved", "again"}
        /\ unquote(resolver.href) \in resolver.namelist) =>
        /\ resolver.cc_out = unquote(resolver.href)
        /\ resolver.out = unquote(resolver.href)

(***************************************************************************)
(* The copyright locator: find_copyright_path of check_copyright_toc.py.   *)
(* The scoring of a document's text and CONFIDENCE_THRESHOLD are another   *)
(* module's: a document is its score, and the threshold is an input.       *)
(***************************************************************************)

\* The most documents in a spine.
MaxDocs == 3

\* The scores score_file may give, and the values CONFIDENCE_THRESHOLD may
\* have.
ScoreValues == {0 - 1, 0, 2, 4, 5, 6, 9}

Thresholds == {1, 5, 7}

\* The sequences over S of length n, and of length at most n.
RECURSIVE SeqsOfLen(_, _)
SeqsOfLen(S, n) ==
    IF n = 0 THEN {<<>>}
    ELSE {Append(q, x) : q \in SeqsOfLen(S, n - 1), x \in S}

SeqsUpTo(S, n) == UNION {SeqsOfLen(S, k) : k \in 0..n}

LocatorInit ==
    /\ locator \in {[LocatorRest EXCEPT !.pc = "start", !.scores = q,
                                         !.CONFIDENCE_THRESHOLD = t] :
                        q \in SeqsUpTo(ScoreValues, MaxDocs), t \in Thresholds}
    /\ resolver = ResolverRest
    /\ single = SingleRest
    /\ copyright = CopyrightRest
    /\ batch = BatchRest

LocalsOf == [best_index |-> locator.best_index,
             best_score |-> locator.best_score,
             second_score |-> locator.second_score]

\* `if not xhtml_paths: return None`
LocateNoPaths ==
    /\ locator.pc = "start"
    /\ Len(locator.scores) = 0
    /\ locator' = [locator EXCEPT !.pc = "done", !.result = NoIndex]
    /\ UNCHANGED locator_others

LocateEnterLoop ==
    /\ locator.pc = "start"
    /\ Len(locator.scores) > 0
    /\ locator' = [locator EXCEPT !.pc = "loop", !.i = 1]
    /\ UNCHANGED locator_others

\* One iteration of the for loop.
LocateScore ==
    /\ locator.pc = "loop"
    /\ locator.i <= Len(locator.scores)
    /\ LET st == ScanStep(LocalsOf, locator.i, locator.scores[locator.i])
       IN  locator' = [locator EXCEPT !.i = locator.i + 1,
                                      !.best_index = st.best_index,
                                      !.best_score = st.best_score,
                                      !.second_score = st.second_score]
    /\ UNCHANGED locator_others

\* The three returns after the loop.
LocateReturn ==
    /\ locator.pc = "loop"
    /\ locator.i > Len(locator.scores)
    /\ locator' = [locator EXCEPT !.pc = "done", !.result = Verdict(LocalsOf, locator.CONFIDENCE_THRESHOLD)]
    /\ UNCHANGED locator_others

LocatorNext == LocateNoPaths \/ LocateEnterLoop \/ LocateScore \/ LocateReturn

SpecLocator == LocatorInit /\ [][LocatorNext]_vars

(***************************************************************************)
(* The locator's claim.                                                    *)
(***************************************************************************)

\* The highest score of a non-empty sequence.
MaxOf(scores) ==
    CHOOSE x \in {scores[k] : k \in 1..Len(scores)} :
        \A k \in 1..Len(scores) : scores[k] <= x

\* The first document of the highest score.
FirstBest(scores) ==
    CHOOSE k \in 1..Len(scores) :
        /\ scores[k] = MaxOf(scores)
        /\ \A j \in 1..(k - 1) : scores[j] # MaxOf(scores)

\* The scores of the documents other than the best one.
OtherScores(scores) == {scores[k] : k \in (1..Len(scores)) \ {FirstBest(scores)}}

\* C4: with best the highest score and second the highest among the other
\* documents, find_copyright_path returns nothing when best is below the
\* threshold, nothing when best and second are positive and
\* best < 1.5 * second, and else the document of the best score; with
\* threshold 5, scores 0, 2, 9 select the third document and scores 6, 5
\* select none.
C4_LocatorVerdict ==
    (locator.pc = "done" /\ Len(locator.scores) > 0) =>
        LET best == MaxOf(locator.scores)
            others == OtherScores(locator.scores)
            ambiguous == best > 0 /\ \E second \in others :
                             /\ \A o \in others : o <= second
                             /\ second > 0
                             /\ 2 * best < 3 * second
        IN  /\ best < locator.CONFIDENCE_THRESHOLD => locator.result = NoIndex
            /\ ambiguous => locator.result = NoIndex
            /\ (best >= locator.CONFIDENCE_THRESHOLD /\ ~ambiguous) =>
                   /\ locator.result \in 1..Len(locator.scores)
                   /\ locator.scores[locator.result] = best
            /\ (locator.scores = <<0, 2, 9>> /\ locator.CONFIDENCE_THRESHOLD = 5)
                   => locator.result = 3
            /\ (locator.scores = <<6, 5>> /\ locator.CONFIDENCE_THRESHOLD = 5)
                   => locator.result = NoIndex

\* C4's case: a confident best score turned down for a runner-up within
\* the margin.
C4_Witness ==
    /\ locator.pc = "done"
    /\ locator.CONFIDENCE_THRESHOLD = 5
    /\ locator.scores = <<6, 5>>
    /\ locator.best_score = 6
    /\ locator.second_score = 5
    /\ locator.result = NoIndex

(***************************************************************************)
(* SpecSingle: analyze_epub_single_chapter on one EPUB.                    *)
(***************************************************************************)

\* The longest TOC of the navigation document, and of the navigation map.
MaxToc == 3
MaxNcx == 2

XHTML == "application/xhtml+xml"

ItemCover == [id |-> "cover", href |-> "cover.xhtml", media_type |-> XHTML,
              properties |-> ""]
ItemC1 == [id |-> "c1", href |-> "ch1.xhtml", media_type |-> XHTML,
           properties |-> ""]
ItemC2 == [id |-> "c2", href |-> "ch%32.xhtml", media_type |-> XHTML,
           properties |-> ""]
ItemNotes == [id |-> "notes", href |-> "notes.xhtml", media_type |-> XHTML,
              properties |-> ""]
ItemCss == [id |-> "css", href |-> "style.css", media_type |-> "text/css",
            properties |-> ""]
ItemNavBad == [id |-> "oldnav", href |-> "oldnav.xhtml", media_type |-> XHTML,
               properties |-> "scripted nav"]
ItemNav == [id |-> "nav", href |-> "nav.xhtml", media_type |-> XHTML,
            properties |-> "nav"]
ItemNcx == [id |-> "ncx", href |-> "toc.ncx", media_type |-> NCX_MEDIA_TYPE,
            properties |-> ""]

OpfPath == "OEBPS/content.opf"
NavPath == "OEBPS/nav.xhtml"
NavBadPath == "OEBPS/oldnav.xhtml"
NcxPath == "OEBPS/toc.ncx"

\* The spines: cover and two chapters; a cover and an id the manifest lacks;
\* one chapter and a stylesheet.
Spines == {<<"cover", "c1", "c2">>, <<"cover", "ghost">>, <<"c1", "css">>}

\* How the package holds its navigation document: no nav item; a nav item
\* whose file the archive lacks; a file whose parse raises; a broken first
\* nav item before a good one; a good one.
NavCases == {"absent", "missing", "broken", "second", "parsed"}

\* How the package holds its navigation map: none; named by the spine's
\* toc attribute; found by its media type (the toc attribute names nothing
\* in the manifest); file lacking; parse raises.
NcxCases == {"absent", "by_toc_id", "by_media", "missing", "broken"}

\* The first anchors a navigation document may hold.
AnchorPool ==
    {[href |-> "ch1.xhtml", text |-> "Chapter 1"],
     [href |-> "ch2.xhtml#top", text |-> "Chapter 2"],
     [href |-> "ch1.xhtml", text |-> "Table of Contents (full)"],
     [href |-> "ch2.xhtml", text |-> " Dedication "],
     [href |-> "ch2.xhtml", text |-> "Copyright Notice"],
     [href |-> "notes.xhtml", text |-> "Notes"],
     [href |-> "cover.xhtml", text |-> "Intro"]}

\* The navPoints a navigation map may hold.
NavPointPool ==
    {[src |-> "ch1.xhtml#a", text |-> "Chapter 1"],
     [src |-> "../OEBPS/ch2.xhtml", text |-> "Dedication and thanks"],
     [src |-> "ch%32.xhtml", text |-> "COVER"],
     [src |-> "", text |-> "Chapter 3"],
     [src |-> "ch2.xhtml", text |-> "Contents"]}

PlainDoc == [broken |-> FALSE, anchors |-> <<>>, navpoints |-> <<>>]

MakeEpub(spine, nav_case, anchors, ncx_case, navpoints) ==
    LET manifest ==
            <<ItemCover, ItemC1, ItemC2, ItemNotes, ItemCss>>
            \o (IF nav_case = "second" THEN <<ItemNavBad>> ELSE <<>>)
            \o (IF nav_case # "absent" THEN <<ItemNav>> ELSE <<>>)
            \o (IF ncx_case # "absent" THEN <<ItemNcx>> ELSE <<>>)
        namelist ==
            {"mimetype", OpfPath, "OEBPS/cover.xhtml", "OEBPS/ch1.xhtml",
             "OEBPS/ch2.xhtml", "OEBPS/notes.xhtml", "OEBPS/style.css"}
            \cup (IF nav_case = "second" THEN {NavBadPath} ELSE {})
            \cup (IF nav_case \in {"broken", "second", "parsed"} THEN {NavPath}
                  ELSE {})
            \cup (IF ncx_case \in {"by_toc_id", "by_media", "broken"}
                  THEN {NcxPath} ELSE {})
    IN  [zip_ok |-> TRUE, opf_path |-> OpfPath, opf_ok |-> TRUE,
         manifest |-> manifest, spine |-> spine,
         spine_toc |-> CASE ncx_case = "absent" -> None
                         [] ncx_case = "by_media" -> "toc"
                         [] OTHER -> "ncx",
         namelist |-> namelist,
         docs |-> [n \in namelist |->
                      IF n = NavPath
                      THEN [broken |-> nav_case = "broken", anchors |-> anchors,
                            navpoints |-> <<>>]
                      ELSE IF n = NavBadPath
                      THEN [broken |-> TRUE, anchors |-> <<>>, navpoints |-> <<>>]
                      ELSE IF n = NcxPath
                      THEN [broken |-> ncx_case = "broken", anchors |-> <<>>,
                            navpoints |-> navpoints]
                      ELSE PlainDoc],
         nav_case |-> nav_case, ncx_case |-> ncx_case]

SomeAnchors ==
    <<[href |-> "ch1.xhtml", text |-> "Chapter 1"],
      [href |-> "ch2.xhtml", text |-> "Chapter 2"]>>

SomeNavPoints ==
    <<[src |-> "ch1.xhtml", text |-> "One"], [src |-> "ch2.xhtml", text |-> "Two"]>>

GoodEpub == MakeEpub(<<"cover", "c1", "c2">>, "parsed", SomeAnchors,
                     "by_toc_id", SomeNavPoints)

\* An archive that does not open, a package with no package document, a
\* package document parse_opf raises on.
FaultEpubs ==
    {[GoodEpub EXCEPT !.zip_ok = FALSE],
     [GoodEpub EXCEPT !.opf_path = None],
     [GoodEpub EXCEPT !.opf_ok = FALSE]}

Epubs ==
    \* every TOC of the navigation document, a navigation map beside it
    {MakeEpub(spine, "parsed", anchors, "by_toc_id", SomeNavPoints) :
        spine \in {<<"cover", "c1", "c2">>, <<"c1", "css">>},
        anchors \in SeqsUpTo(AnchorPool, MaxToc)}
    \cup
    \* every TOC of the navigation map, behind each navigation document
    \* that yields nothing
    {MakeEpub(<<"cover", "c1", "c2">>, nav_case, <<>>, ncx_case, navpoints) :
        nav_case \in NavCases, ncx_case \in {"by_toc_id", "by_media"},
        navpoints \in SeqsUpTo(NavPointPool, MaxNcx)}
    \cup
    \* every way of holding the two documents
    {MakeEpub(spine, nav_case, anchors, ncx_case, SomeNavPoints) :
        spine \in Spines, nav_case \in NavCases,
        anchors \in {<<>>, SomeAnchors}, ncx_case \in NcxCases}
    \cup FaultEpubs

SingleInit ==
    /\ single \in {[pc |-> "start", epub |-> e, run |-> SingleBlank] : e \in Epubs}
    /\ resolver = ResolverRest
    /\ locator = LocatorRest
    /\ copyright = CopyrightRest
    /\ batch = BatchRest

\* analyze_epub_single_chapter(path).
AnalyzeSingle ==
    /\ single.pc = "start"
    /\ single' = [single EXCEPT !.pc = "done",
                                !.run = analyze_epub_single_chapter(single.epub)]
    /\ UNCHANGED single_others

SingleNext == AnalyzeSingle

SpecSingle == SingleInit /\ [][SingleNext]_vars

(***************************************************************************)
(* The single-chapter check's claims.                                      *)
(***************************************************************************)

\* The call has returned from the classification of a TOC.
Classifies == single.pc = "done" /\ single.run.reached = "toc"

\* The resolved target of an entry, by the stack resolution.
RefTarget(entry) == RefResolve(entry.source, RefCut(entry.href))

\* The distinct resolved targets of a list of entries.
RefTargets(entries) == {RefTarget(entries[k]) : k \in 1..Len(entries)}

\* C1 (as claimed): for a non-empty TOC and a non-empty content-file set,
\* the reasons contain single_toc_entry when one entry survives the filter
\* or the surviving entries reach exactly one distinct target, contain
\* toc_has_no_content_entries when none survives, and are empty when the
\* surviving entries reach two or more distinct targets.
C1_SingleChapterReasons ==
    (Classifies /\ Len(single.run.toc_entries) > 0
        /\ Len(single.run.content_files) > 0) =>
        /\ (Len(single.run.kept) = 1
                \/ Cardinality(RefTargets(single.run.kept)) = 1)
               => InSeq("single_toc_entry", single.run.reasons)
        /\ Len(single.run.kept) = 0
               => InSeq("toc_has_no_content_entries", single.run.reasons)
        /\ Cardinality(RefTargets(single.run.kept)) >= 2
               => single.run.reasons = <<>>

\* C7: analyze_epub_single_chapter returns exactly ['no_opf'], and analyses
\* nothing else, when no package document is found; otherwise exactly
\* ['no_content_files'] when the content-file set is empty, also when the
\* package has no TOC at all; otherwise exactly ['no_toc'] when neither
\* navigation source yields an entry.
C7_ShortCircuitOrder ==
    (single.pc = "done" /\ single.epub.zip_ok) =>
        /\ single.epub.opf_path = None =>
               /\ single.run.reasons = <<"no_opf">>
               /\ single.run.reached = "opf"
               /\ single.run.content_files = <<>>
               /\ single.run.toc_entries = <<>>
        /\ (single.epub.opf_path # None /\ single.epub.opf_ok
                /\ \A k \in 1..Len(single.epub.spine) :
                       single.epub.spine[k] \in {"cover", "ghost", "css"}) =>
               /\ single.run.reasons = <<"no_content_files">>
               /\ single.run.reached = "content"
        /\ (single.run.reached = "toc" /\ Len(single.run.nav_entries) = 0
                /\ Len(single.run.ncx_entries) = 0) =>
               single.run.reasons = <<"no_toc">>
        /\ (single.epub.opf_path # None /\ single.epub.opf_ok
                /\ \E k \in 1..Len(single.epub.spine) :
                       single.epub.spine[k] \in {"c1", "c2"}
                /\ single.epub.nav_case \in {"absent", "missing", "broken"}
                /\ single.epub.ncx_case \in {"absent", "missing", "broken"}) =>
               single.run.reasons = <<"no_toc">>

\* C7's case: a package with neither content files nor any TOC reports the
\* content files; a package with content files and no TOC reports the TOC.
C7_Witness ==
    /\ single.pc = "done"
    /\ single.epub.spine = <<"cover", "ghost">>
    /\ single.epub.nav_case = "absent"
    /\ single.epub.ncx_case = "absent"
    /\ single.run.reasons = <<"no_content_files">>

\* What the navigation document of an EPUB of MakeEpub yields, and what
\* its navigation map yields.
RefNavEntries(e) ==
    IF e.nav_case \in {"second", "parsed"}
    THEN [k \in 1..Len(e.docs[NavPath].anchors) |->
             [href |-> e.docs[NavPath].anchors[k].href,
              text |-> Strip(e.docs[NavPath].anchors[k].text),
              source |-> NavPath]]
    ELSE <<>>

RefNcxSources(e) ==
    IF e.ncx_case \in {"by_toc_id", "by_media"}
    THEN SelectSeq(e.docs[NcxPath].navpoints, LAMBDA np : np.src # "")
    ELSE <<>>

\* C8: the entries classified are the navigation document's whenever it
\* yields at least one entry, and the navigation map's only when it yields
\* none (no nav item, file not in the archive, parse failure, no anchors);
\* the two sources are never mixed.
C8_ModernFirst ==
    Classifies =>
        /\ single.run.nav_entries = RefNavEntries(single.epub)
        /\ Len(single.run.ncx_entries) = Len(RefNcxSources(single.epub))
        /\ \A k \in 1..Len(single.run.ncx_entries) :
               /\ single.run.ncx_entries[k].source = NcxPath
               /\ single.run.ncx_entries[k].href = RefNcxSources(single.epub)[k].src
        /\ Len(single.run.nav_entries) > 0
               => single.run.toc_entries = single.run.nav_entries
        /\ Len(single.run.nav_entries) = 0
               => single.run.toc_entries = single.run.ncx_entries
        /\ \/ \A k \in 1..Len(single.run.toc_entries) :
                  single.run.toc_entries[k].source = NavPath
           \/ \A k \in 1..Len(single.run.toc_entries) :
                  single.run.toc_entries[k].source = NcxPath

\* C8's case: both sources yield entries and the navigation document's are
\* the ones classified.
C8_Witness ==
    /\ Classifies
    /\ Len(single.run.nav_entries) > 0
    /\ Len(single.run.ncx_entries) > 0
    /\ single.run.toc_entries = single.run.nav_entries
    /\ single.run.toc_entries # single.run.ncx_entries

\* The label of an entry as the filter reads it.
RefLabel(entry) == Strip(Lower(entry.text))

\* The filename of a path: what follows its last '/'.
RefFilename(path) ==
    IF Len(RefSegments(path)) = 0 THEN ""
    ELSE RefSegments(path)[Len(RefSegments(path))]

RefFileTest(entry, content_files) ==
    /\ ~\E kw \in {"cover", "title", "copyright", "toc"} :
           Contains(Lower(RefFilename(RefTarget(entry))), kw)
    /\ InSeq(RefTarget(entry), content_files)

\* C10 (as claimed): an entry survives if and only if its label neither
\* equals nor contains any boilerplate keyword, the filename of its target
\* contains no boilerplate filename keyword, and its target is a content
\* file.
C10_SurvivalAnyKeyword ==
    (Classifies /\ Len(single.run.toc_entries) > 0) =>
        single.run.kept =
            SelectSeq(single.run.toc_entries,
                LAMBDA entry :
                    /\ ~\E kw \in boilerplate_keywords :
                           Contains(RefLabel(entry), kw)
                    /\ RefFileTest(entry, single.run.content_files))

\* C10 (amended): an entry survives if and only if its lower-cased, trimmed
\* label neither equals a boilerplate keyword nor contains one of cover,
\* title page, copyright, the filename of its resolved target contains none
\* of cover, title, copyright, toc, and its resolved target is a content
\* file; so 'Table of Contents (full)' and 'Dedication and thanks', which
\* contain but do not equal a keyword outside those three, survive, and
\* 'Copyright Notice' is discarded.
C10_ContentEntrySurvival ==
    (Classifies /\ Len(single.run.toc_entries) > 0) =>
        /\ single.run.kept =
               SelectSeq(single.run.toc_entries,
                   LAMBDA entry :
                       /\ RefLabel(entry) \notin boilerplate_keywords
                       /\ ~\E kw \in {"cover", "title page", "copyright"} :
                              Contains(RefLabel(entry), kw)
                       /\ RefFileTest(entry, single.run.content_files))
        /\ single.run.toc_analysis.content_entries = Len(single.run.kept)
        /\ \A k \in 1..Len(single.run.toc_entries) :
               single.run.toc_entries[k].text = "Copyright Notice"
                   => ~InSeq(single.run.toc_entries[k], single.run.kept)

\* C10's case: a label that contains a keyword without being one is kept,
\* next to a label that is a keyword once trimmed, which is not.
C10_Witness ==
    /\ Classifies
    /\ \E k \in 1..Len(single.run.toc_entries) :
           /\ single.run.toc_entries[k].text = "Table of Contents (full)"
           /\ InSeq(single.run.toc_entries[k], single.run.kept)
    /\ \E k \in 1..Len(single.run.toc_entries) :
           /\ RefLabel(single.run.toc_entries[k]) = "dedication"
           /\ ~InSeq(single.run.toc_entries[k], single.run.kept)

(***************************************************************************)
(* SpecCopyright: analyze_epub of check_copyright_toc.py on one EPUB.      *)
(***************************************************************************)

\* The longest list of navigation-map sources, and of human-TOC links.
MaxSrcs == 2

ItemChapter1 == [id |-> "c1", href |-> "content/chapter1.xhtml",
                 media_type |-> XHTML, properties |-> ""]
ItemCopyright == [id |-> "cpr", href |-> "copyright.xhtml",
                  media_type |-> XHTML, properties |-> ""]
ItemContents == [id |-> "contents", href |-> "Text/Contents.html",
                 media_type |-> XHTML, properties |-> ""]
ItemTocPage == [id |-> "tocpage", href |-> "toc.xhtml",
                media_type |-> XHTML, properties |-> ""]

Chapter1Path == "OEBPS/content/chapter1.xhtml"
CopyrightPath == "OEBPS/copyright.xhtml"
ContentsPath == "OEBPS/Text/Contents.html"
TocPagePath == "OEBPS/toc.xhtml"

\* The content sources a navigation map may hold.
SrcPool ==
    {"content/chapter1.xhtml#top", "copyright.xhtml", "OEBPS/copyright.xhtml",
     "../OEBPS/./copyright.xhtml#a", "content/copyright.xhtml", ""}

\* The links a human TOC page may hold.
LinkPool ==
    {"copyright.xhtml#c", "content/chapter1.xhtml",
     "OEBPS/content/chapter1.xhtml", "#top"}

\* How the package holds its second human TOC page.
ContentsCases == {"missing", "broken", "parsed"}

\* The scores of the three spine documents.
ScoreCases == {<<9, 0, 2>>, <<0, 9, 2>>, <<6, 5, 0>>, <<0, 4, 0>>}

AsNavPoints(srcs) == [k \in 1..Len(srcs) |-> [src |-> srcs[k], text |-> "entry"]]

AsAnchors(links) == [k \in 1..Len(links) |-> [href |-> links[k], text |-> "entry"]]

CopyrightDoc(broken, anchors, navpoints) ==
    [broken |-> broken, fault |-> IF broken THEN "bad markup" ELSE "",
     anchors |-> anchors, navpoints |-> navpoints]

MakeCopyrightEpub(ncx_case, srcs, links, contents_case, scores) ==
    [zip_ok |-> TRUE, fault |-> "", opf_path |-> OpfPath, opf_ok |-> TRUE,
     scan_ok |-> TRUE,
     manifest |-> <<ItemChapter1, ItemCopyright, ItemContents, ItemTocPage>>
                      \o (IF ncx_case # "absent" THEN <<ItemNcx>> ELSE <<>>),
     spine |-> <<"c1", "cpr", "ghost", "contents", "tocpage">>,
     spine_toc |-> CASE ncx_case = "absent" -> None
                     [] ncx_case = "by_media" -> "toc"
                     [] OTHER -> "ncx",
     resolved |-> [h \in {"content/chapter1.xhtml", "copyright.xhtml",
                          "Text/Contents.html", "toc.xhtml", "toc.ncx"} |->
                      "OEBPS/" \o h],
     namelist |-> {"mimetype", OpfPath, Chapter1Path, CopyrightPath, TocPagePath}
                      \cup (IF contents_case # "missing" THEN {ContentsPath} ELSE {})
                      \cup (IF ncx_case \in {"by_toc_id", "by_media", "broken"}
                            THEN {NcxPath} ELSE {}),
     docs |-> [n \in {Chapter1Path, CopyrightPath, TocPagePath, ContentsPath,
                      NcxPath} |->
                  IF n = NcxPath
                  THEN CopyrightDoc(ncx_case = "broken", <<>>, AsNavPoints(srcs))
                  ELSE IF n = TocPagePath
                  THEN CopyrightDoc(FALSE, AsAnchors(links), <<>>)
                  ELSE IF n = ContentsPath
                  THEN CopyrightDoc(contents_case = "broken",
                                    AsAnchors(<<"../copyright.xhtml#c">>), <<>>)
                  ELSE CopyrightDoc(FALSE, <<>>, <<>>)],
     xhtml_paths |-> <<Chapter1Path, CopyrightPath, TocPagePath>>,
     scores |-> scores,
     ncx_case |-> ncx_case, contents_case |-> contents_case]

SomeSrcs == <<"content/chapter1.xhtml#top", "copyright.xhtml">>

GoodCopyrightEpub ==
    MakeCopyrightEpub("by_toc_id", SomeSrcs, <<"copyright.xhtml#c">>, "parsed",
                      <<0, 9, 2>>)

\* An archive that does not open, a package with no package document, a
\* package document parse_opf raises on, a spine document the scoring
\* raises on.
FaultCopyrightEpubs ==
    {[GoodCopyrightEpub EXCEPT !.zip_ok = FALSE, !.fault = "File is not a zip file"],
     [GoodCopyrightEpub EXCEPT !.opf_path = None],
     [GoodCopyrightEpub EXCEPT !.opf_ok = FALSE, !.fault = "no such member"],
     [GoodCopyrightEpub EXCEPT !.scan_ok = FALSE, !.fault = "bad text"]}

\* Packages that differ in how the navigation map is named: a toc id that
\* names a manifest item other than the NCX item (the id wins over the media
\* type), an empty toc id (the media type decides), and no usable
\* navigation map in a package whose scoring raises.
NavMapEpubs ==
    {[MakeCopyrightEpub("by_toc_id", SomeSrcs, links, "parsed", scores)
         EXCEPT !.spine_toc = "c1", !.ncx_case = "by_other_id"] :
        links \in SeqsUpTo(LinkPool, 1), scores \in ScoreCases}
    \cup
    {[MakeCopyrightEpub("by_media", SomeSrcs, links, "parsed", scores)
         EXCEPT !.spine_toc = ""] :
        links \in SeqsUpTo(LinkPool, 1), scores \in ScoreCases}
    \cup
    {[MakeCopyrightEpub(ncx_case, SomeSrcs, <<"copyright.xhtml#c">>, "parsed",
                        <<0, 9, 2>>)
         EXCEPT !.scan_ok = FALSE, !.fault = "bad text"] :
        ncx_case \in {"absent", "missing", "broken"}}

CopyrightEpubs ==
    \* every navigation map, beside a short human TOC page
    {MakeCopyrightEpub("by_toc_id", srcs, links, "missing", scores) :
        srcs \in SeqsUpTo(SrcPool, MaxSrcs), links \in SeqsUpTo(LinkPool, 1),
        scores \in ScoreCases}
    \cup
    \* every human TOC page, beside every way of holding the navigation map
    {MakeCopyrightEpub(ncx_case, SomeSrcs, links, contents_case, scores) :
        ncx_case \in NcxCases, links \in SeqsUpTo(LinkPool, MaxSrcs),
        contents_case \in ContentsCases, scores \in ScoreCases}
    \cup FaultCopyrightEpubs
    \cup NavMapEpubs

CopyrightInit ==
    /\ copyright \in
           {[pc |-> "start", CONFIDENCE_THRESHOLD |-> 5, epub |-> e,
             run |-> CopyrightBlank] : e \in CopyrightEpubs}
           \cup {[pc |-> "start", CONFIDENCE_THRESHOLD |-> t,
                  epub |-> [GoodCopyrightEpub EXCEPT !.scores = q],
                  run |-> CopyrightBlank] : t \in Thresholds, q \in ScoreCases}
    /\ resolver = ResolverRest
    /\ locator = LocatorRest
    /\ single = SingleRest
    /\ batch = BatchRest

\* analyze_epub(epub_path).
AnalyzeCopyright ==
    /\ copyright.pc = "start"
    /\ copyright' = [copyright EXCEPT
           !.pc = "done",
           !.run = analyze_epub(copyright.epub, copyright.CONFIDENCE_THRESHOLD)]
    /\ UNCHANGED copyright_others

CopyrightNext == AnalyzeCopyright

SpecCopyright == CopyrightInit /\ [][CopyrightNext]_vars

(***************************************************************************)
(* The copyright check's claim.                                            *)
(***************************************************************************)

\* A candidate was chosen and the two reachability tests were made.
Chosen == copyright.pc = "done" /\ copyright.run.reached = "hits"

\* The navigation map's sources and the links of the human TOC pages of an
\* EPUB of MakeCopyrightEpub, each with the document it comes from.
RefNcxHrefs(e) ==
    IF e.ncx_case \in {"by_toc_id", "by_media"}
    THEN [k \in 1..Len(e.docs[NcxPath].navpoints) |->
             [href |-> e.docs[NcxPath].navpoints[k].src, source |-> NcxPath]]
    ELSE <<>>

RefHumanHrefs(e) ==
    (IF e.contents_case = "parsed"
     THEN [k \in 1..Len(e.docs[ContentsPath].anchors) |->
              [href |-> e.docs[ContentsPath].anchors[k].href,
               source |-> ContentsPath]]
     ELSE <<>>)
    \o [k \in 1..Len(e.docs[TocPagePath].anchors) |->
           [href |-> e.docs[TocPagePath].anchors[k].href, source |-> TocPagePath]]

\* Segment-wise equality of two paths.
RefSamePath(p, q) == RefSegments(p) = RefSegments(q)

\* An href, cut at its first '#', resolved relative to its source.
RefRelative(h) == RefResolve(h.source, RefCut(h.href))

\* C5 (as claimed): "in ncx" is reported if and only if some navigation-map
\* href, cut at its first '#' and resolved relative to the navigation map's
\* path, is segment-wise equal to the candidate's path; "in human toc page"
\* likewise over the human-TOC-page links, whatever the first test gave.
C5_HitsRelativeOnly ==
    Chosen =>
        /\ InSeq("in ncx", copyright.run.result)
               <=> \E k \in 1..Len(RefNcxHrefs(copyright.epub)) :
                       /\ RefNcxHrefs(copyright.epub)[k].href # ""
                       /\ RefSamePath(RefRelative(RefNcxHrefs(copyright.epub)[k]),
                                      copyright.run.copyright_path)
        /\ InSeq("in human toc page", copyright.run.result)
               <=> \E k \in 1..Len(RefHumanHrefs(copyright.epub)) :
                       RefSamePath(RefRelative(RefHumanHrefs(copyright.epub)[k]),
                                   copyright.run.copyright_path)

\* An href resolved as normalize_path of check_copyright_toc.py does: the
\* decoded href itself when it names an archive entry, else relative to its
\* source.
RefShortCircuit(h, namelist) ==
    IF unquote(RefCut(h.href)) \in namelist
    THEN unquote(RefCut(h.href))
    ELSE RefRelative(h)

\* C5 (amended): "in ncx" is reported if and only if some navigation-map
\* href with a non-empty source, cut at its first '#', percent-decoded and
\* then taken as it is when it names an archive entry and else resolved
\* relative to the navigation map's path, is segment-wise equal to the
\* candidate's path (content/chapter1.xhtml#top from OEBPS/toc.ncx hits
\* OEBPS/content/chapter1.xhtml); "in human toc page" likewise over the
\* human-TOC-page links, whatever the first test gave.
C5_ReachabilityHits ==
    Chosen =>
        /\ InSeq("in ncx", copyright.run.result)
               <=> \E k \in 1..Len(RefNcxHrefs(copyright.epub)) :
                       /\ RefNcxHrefs(copyright.epub)[k].href # ""
                       /\ RefSamePath(
                              RefShortCircuit(RefNcxHrefs(copyright.epub)[k],
                                              copyright.epub.namelist),
                              copyright.run.copyright_path)
        /\ InSeq("in human toc page", copyright.run.result)
               <=> \E k \in 1..Len(RefHumanHrefs(copyright.epub)) :
                       RefSamePath(
                           RefShortCircuit(RefHumanHrefs(copyright.epub)[k],
                                           copyright.epub.namelist),
                           copyright.run.copyright_path)
        /\ (copyright.run.copyright_path = Chapter1Path
                /\ copyright.epub.ncx_case = "by_toc_id"
                /\ InSeq([src |-> "content/chapter1.xhtml#top", text |-> "entry"],
                         copyright.epub.docs[NcxPath].navpoints))
               => InSeq("in ncx", copyright.run.result)

\* C5's case: the candidate is reached from the navigation map through an
\* href with a fragment, and not from the human TOC page.
C5_Witness ==
    /\ Chosen
    /\ copyright.run.copyright_path = Chapter1Path
    /\ copyright.epub.docs[NcxPath].navpoints =
           <<[src |-> "content/chapter1.xhtml#top", text |-> "entry"]>>
    /\ copyright.run.result = <<"in ncx">>

(***************************************************************************)
(* The claim on a package without a navigation map.                        *)
(***************************************************************************)

\* analyze_epub returned from its try block at `return None, warnings` or at
\* `return (hits if hits else None), warnings`: the archive opened, the
\* package document was found and read, and nothing raised.
Returned ==
    /\ copyright.pc = "done"
    /\ copyright.epub.zip_ok
    /\ copyright.epub.opf_path # None
    /\ copyright.epub.opf_ok
    /\ copyright.epub.scan_ok

\* The ways of MakeCopyrightEpub to be without a readable navigation map.
NoNavMap == {"absent", "missing", "broken"}

\* The one warning each of them is named by.
RefNcxWarning(ncx_case) ==
    CASE ncx_case = "absent" -> "NO NCX FOUND"
      [] ncx_case = "missing" -> "NCX file missing from zip: OEBPS/toc.ncx"
      [] ncx_case = "broken" -> "NCX parse error: bad markup"

\* The candidate the locator gives for the scores of the three spine
\* documents at a threshold: the highest score's document when that score
\* reaches the threshold and, where a second score is positive, is at least
\* one and a half times the second score.
RefCandidate(scores, threshold) ==
    IF /\ MaxOf(scores) >= threshold
       /\ \A k \in 1..Len(scores) :
              (k # FirstBest(scores) /\ scores[k] > 0)
                  => 2 * MaxOf(scores) >= 3 * scores[k]
    THEN FirstBest(scores)
    ELSE NoIndex

\* C11: a package without a readable navigation map is a named condition of
\* the copyright check, not a failure.  The navigation map is the manifest
\* item of the spine's toc id when the manifest has that id, else the first
\* manifest item of the NCX media type.  When there is none, or its file is
\* not in the archive, or its parse raises, an analysis that returns has
\* no navigation-map entries, records exactly the one warning of that
\* condition ("NO NCX FOUND" for absence) and never reports "in ncx"; the
\* locator is still run on the spine documents, and when it gives a
\* candidate the human TOC pages are still read and "in human toc page" is
\* reported exactly when one of their links leads to the candidate.
C11_NoNcxNamed ==
    Returned =>
        /\ copyright.epub.ncx_case \in NoNavMap =>
               /\ copyright.run.ncx_is_none
               /\ copyright.run.ncx_hrefs = <<>>
               /\ copyright.run.warnings =
                      <<RefNcxWarning(copyright.epub.ncx_case)>>
               /\ ~InSeq("in ncx", copyright.run.result)
               /\ (copyright.run.reached = "hits")
                      <=> RefCandidate(copyright.epub.scores,
                                       copyright.CONFIDENCE_THRESHOLD) # NoIndex
               /\ (copyright.run.reached # "hits")
                      => /\ copyright.run.reached = "locate"
                         /\ copyright.run.result = <<>>
               /\ (copyright.run.reached = "hits")
                      => /\ copyright.run.copyright_path =
                                copyright.epub.xhtml_paths[
                                    RefCandidate(copyright.epub.scores,
                                                 copyright.CONFIDENCE_THRESHOLD)]
                         /\ InSeq("in human toc page", copyright.run.result)
                                <=> \E k \in 1..Len(RefHumanHrefs(copyright.epub)) :
                                        RefSamePath(
                                            RefShortCircuit(
                                                RefHumanHrefs(copyright.epub)[k],
                                                copyright.epub.namelist),
                                            copyright.run.copyright_path)
        /\ copyright.epub.ncx_case \in {"by_toc_id", "by_media"} =>
               /\ ~copyright.run.ncx_is_none
               /\ copyright.run.warnings = <<>>
               /\ copyright.run.ncx_hrefs =
                      SelectSeq(RefNcxHrefs(copyright.epub),
                                LAMBDA h : h.href # "")
        /\ copyright.epub.ncx_case = "by_other_id" =>
               /\ ~copyright.run.ncx_is_none
               /\ copyright.run.warnings = <<>>
               /\ copyright.run.ncx_hrefs = <<>>

\* C11's case: no manifest item is a navigation map, the absence is the one
\* warning, and the candidate is still found and reported as linked from
\* the human TOC page.
C11_Witness ==
    /\ Returned
    /\ copyright.epub.ncx_case = "absent"
    /\ copyright.run.warnings = <<"NO NCX FOUND">>
    /\ copyright.run.copyright_path = CopyrightPath
    /\ copyright.run.result = <<"in human toc page">>

(***************************************************************************)
(* SpecBatch: either main on a folder.                                     *)
(***************************************************************************)

\* The most files in the folder.
MaxFiles == 3

\* The files a folder may hold: one without issue, one with, a zero-byte
\* file, one without a package document, one whose package document does
\* not parse.
FileKinds == {"good", "plain", "zero_byte", "no_opf", "bad_opf"}

\* What each file is to the single-chapter check.
EpubOfKind(kind) ==
    CASE kind = "good" -> GoodEpub
      [] kind = "plain" ->
             MakeEpub(<<"cover", "c1", "c2">>, "parsed",
                      <<[href |-> "ch1.xhtml", text |-> "Chapter 1"]>>,
                      "absent", <<>>)
      [] kind = "zero_byte" -> [GoodEpub EXCEPT !.zip_ok = FALSE]
      [] kind = "no_opf" -> [GoodEpub EXCEPT !.opf_path = None]
      [] OTHER -> [GoodEpub EXCEPT !.opf_ok = FALSE]

\* What each file is to the copyright check.
CopyrightEpubOfKind(kind) ==
    CASE kind = "good" -> GoodCopyrightEpub
      [] kind = "plain" ->
             MakeCopyrightEpub("absent", <<>>, <<>>, "missing", <<0, 4, 0>>)
      [] kind = "zero_byte" ->
             [GoodCopyrightEpub EXCEPT !.zip_ok = FALSE,
                                       !.fault = "File is not a zip file"]
      [] kind = "no_opf" -> [GoodCopyrightEpub EXCEPT !.opf_path = None]
      [] OTHER -> [GoodCopyrightEpub EXCEPT !.opf_ok = FALSE,
                                            !.fault = "no such member"]

\* What analyze_epub_single_chapter returns for each kind of file, and
\* analyze_epub for each kind of file and threshold.
SingleRunOf ==
    [kind \in FileKinds |-> analyze_epub_single_chapter(EpubOfKind(kind))]

CopyrightRunOf ==
    [kind \in FileKinds, CONFIDENCE_THRESHOLD \in Thresholds |->
        analyze_epub(CopyrightEpubOfKind(kind), CONFIDENCE_THRESHOLD)]

\* The folders: every set of paths, every kind of file at each.
Folders == UNION {[paths -> FileKinds] : paths \in SUBSET (1..MaxFiles)}

BatchInit ==
    /\ batch \in
           {[pc |-> "start", driver |-> d, is_dir |-> TRUE, files |-> f,
             CONFIDENCE_THRESHOLD |-> 5, epub_paths |-> <<>>, i |-> 0,
             analysed |-> <<>>, out |-> <<>>, found |-> 0] :
                d \in {"single", "copyright"}, f \in Folders}
           \cup {[pc |-> "start", driver |-> d, is_dir |-> FALSE, files |-> <<>>,
                  CONFIDENCE_THRESHOLD |-> 5, epub_paths |-> <<>>, i |-> 0,
                  analysed |-> <<>>, out |-> <<>>, found |-> 0] :
                     d \in {"single", "copyright"}}
    /\ resolver = ResolverRest
    /\ locator = LocatorRest
    /\ single = SingleRest
    /\ copyright = CopyrightRest

Banner == [path |-> NoIndex,
           text |-> "Detecting EPUBs with single-chapter issues..."]

\* detect_no_toc.main up to its loop.
DetectMainStart ==
    /\ batch.pc = "start"
    /\ batch.driver = "single"
    /\ batch' =
           IF ~batch.is_dir
           THEN [batch EXCEPT !.pc = "exit",
                     !.out = <<Banner, [path |-> NoIndex,
                                        text |-> "Folder not found"]>>]
           ELSE IF Len(Sorted(DOMAIN batch.files)) = 0
           THEN [batch EXCEPT !.pc = "done",
                     !.out = <<Banner, [path |-> NoIndex,
                                        text |-> "No EPUB files found"]>>]
           ELSE [batch EXCEPT !.pc = "loop", !.out = <<Banner>>, !.i = 1,
                     !.epub_paths = Sorted(DOMAIN batch.files)]
    /\ UNCHANGED batch_others

\* One iteration of the loop of detect_no_toc.main.
DetectMainFile ==
    /\ batch.pc = "loop"
    /\ batch.driver = "single"
    /\ batch.i <= Len(batch.epub_paths)
    /\ batch' = DetectReport(batch, batch.epub_paths[batch.i],
                    SingleRunOf[batch.files[batch.epub_paths[batch.i]]])
    /\ UNCHANGED batch_others

\* detect_no_toc.main after its loop.
DetectMainEnd ==
    /\ batch.pc = "loop"
    /\ batch.driver = "single"
    /\ batch.i > Len(batch.epub_paths)
    /\ batch' =
           IF batch.found = 0
           THEN [batch EXCEPT !.pc = "done",
                     !.out = Append(@, [path |-> NoIndex,
                                 text |-> "No single-chapter issues detected"])]
           ELSE [batch EXCEPT !.pc = "done"]
    /\ UNCHANGED batch_others

\* check_copyright_toc.main up to its loop.
CopyrightMainStart ==
    /\ batch.pc = "start"
    /\ batch.driver = "copyright"
    /\ batch' =
           IF ~batch.is_dir
           THEN [batch EXCEPT !.pc = "exit",
                     !.out = <<[path |-> NoIndex, text |-> "Folder not found"]>>]
           ELSE IF Len(Sorted(DOMAIN batch.files)) = 0
           THEN [batch EXCEPT !.pc = "done",
                     !.out = <<[path |-> NoIndex, text |-> "No EPUB files found"]>>]
           ELSE [batch EXCEPT !.pc = "loop", !.i = 1,
                     !.epub_paths = Sorted(DOMAIN batch.files)]
    /\ UNCHANGED batch_others

\* One iteration of the loop of check_copyright_toc.main.
CopyrightMainFile ==
    /\ batch.pc = "loop"
    /\ batch.driver = "copyright"
    /\ batch.i <= Len(batch.epub_paths)
    /\ batch' = CopyrightReport(batch, batch.epub_paths[batch.i],
                    CopyrightRunOf[batch.files[batch.epub_paths[batch.i]],
                                   batch.CONFIDENCE_THRESHOLD])
    /\ UNCHANGED batch_others

\* check_copyright_toc.main after its loop.
CopyrightMainEnd ==
    /\ batch.pc = "loop"
    /\ batch.driver = "copyright"
    /\ batch.i > Len(batch.epub_paths)
    /\ batch' =
           IF batch.found = 0
           THEN [batch EXCEPT !.pc = "done",
                     !.out = Append(@, [path |-> NoIndex,
                                 text |-> "No copyright pages found in any TOC"])]
           ELSE [batch EXCEPT !.pc = "done"]
    /\ UNCHANGED batch_others

BatchNext ==
    \/ DetectMainStart
    \/ DetectMainFile
    \/ DetectMainEnd
    \/ CopyrightMainStart
    \/ CopyrightMainFile
    \/ CopyrightMainEnd

\* main is one thread that runs until it returns.
SpecBatch == BatchInit /\ [][BatchNext]_vars /\ WF_vars(BatchNext)

(***************************************************************************)
(* The batch drivers' claim.                                               *)
(***************************************************************************)

\* The lines printed about a path.
LinesAbout(epub_path) ==
    SelectSeq(batch.out, LAMBDA line : line.path = epub_path)

\* What a file of each kind is reported as: the text of its lines after
\* the name.
RefReport(driver, kind) ==
    IF driver = "single"
    THEN CASE kind = "good" -> <<>>
           [] kind = "plain" -> <<": single_toc_entry">>
           [] kind = "no_opf" -> <<": no_opf">>
           [] OTHER -> <<": error_parsing_epub">>
    ELSE CASE kind = "good" -> <<": in ncx, in human toc page">>
           [] kind = "plain" -> <<": NO NCX FOUND">>
           [] kind = "no_opf" -> <<": OPF not found">>
           [] kind = "zero_byte" -> <<": error: File is not a zip file">>
           [] OTHER -> <<": error: no such member">>

\* The paths are listed in increasing order, each file of the folder once.
SortedListing ==
    /\ \A j, k \in 1..Len(batch.epub_paths) :
           j < k => batch.epub_paths[j] < batch.epub_paths[k]
    /\ {batch.epub_paths[k] : k \in 1..Len(batch.epub_paths)} = DOMAIN batch.files

\* No exception leaves the loop; the files analysed are the first of the
\* sorted paths, in that order, all of them once main returns; and every
\* file analysed has exactly the lines of its kind, a faulty file exactly
\* one line with its error reason.
BatchSafe ==
    /\ batch.pc # "crashed"
    /\ batch.pc \in {"loop", "done"} => SortedListing
    /\ batch.pc = "loop" =>
           batch.analysed = SubSeq(batch.epub_paths, 1, batch.i - 1)
    /\ batch.pc = "done" => batch.analysed = batch.epub_paths
    /\ batch.pc \in {"loop", "done"} =>
           \A k \in 1..Len(batch.analysed) :
               LinesAbout(batch.analysed[k]) =
                   [j \in 1..Len(RefReport(batch.driver,
                                           batch.files[batch.analysed[k]])) |->
                       [path |-> batch.analysed[k],
                        text |-> NameOf(batch.analysed[k])
                                     \o RefReport(batch.driver,
                                            batch.files[batch.analysed[k]])[j]]]

\* C6: in both drivers every file is analysed exactly once, in sorted
\* order, and the loop reaches its end; an archive fault or an exception
\* raised while one file is analysed becomes a single error reason of that
\* file (error_parsing_epub, or one 'error: ...' warning), and the files
\* after it are still analysed and reported.
C6_BatchRobust == [](BatchSafe) /\ <>(batch.pc \in {"done", "exit"})

\* C6's case: a zero-byte file before a well-formed one that has an issue:
\* the first is reported as an error, the second with its reason, and main
\* has returned.
C6_Witness ==
    /\ batch.pc = "done"
    /\ batch.driver = "single"
    /\ batch.files = [epub_path \in {1, 2} |->
                          IF epub_path = 1 THEN "zero_byte" ELSE "plain"]
    /\ batch.analysed = <<1, 2>>
    /\ batch.out = <<Banner,
                     [path |-> 1, text |-> "book1: error_parsing_epub"],
                     [path |-> 2, text |-> "book2: single_toc_entry"]>>

=============================================================================
